---- MODULE Spec2Model ----
(***************************************************************************)
(* Model of modules/justIdSystem.js (the JustId user-id submodule):        *)
(* justIdSubmodule.getId(...).callback(cbFun), ConfigWrapper,              *)
(* AtmUidProvider, InternalUidProvider, ExternalUidProvider and            *)
(* promiseWithTimeout.                                                     *)
(*                                                                         *)
(* One macrotask of the JavaScript event loop is one action.  The promise  *)
(* reactions (microtasks) a macrotask queues run before any other          *)
(* macrotask, so they are part of the action that queued them.             *)
(***************************************************************************)
EXTENDS Integers, Sequences, FiniteSets, TLC

(***************************************************************************)
(* Program constants                                                       *)
(***************************************************************************)
DEFAULT_DOMAIN == "id.nsaudience.pl"
DEFAULT_PARTNER == "pbjs-just-id-module"
DefaultModeInternal == "INTERNAL"
DEFAULT_MODE == "EXTERNAL"
UID_COOKIE_SUFFIX == "uid"
UT_COOKIE_SUFFIX == "ut"
DAY_IN_SECONDS == 24 * 60 * 60
YEAR_IN_SECONDS == 365 * DAY_IN_SECONDS
MsPerSec == 1000

(***************************************************************************)
(* Bounds of the model                                                     *)
(***************************************************************************)
\* how many times the clock advances (by half a second each time) while
\* the cache ages, and while the strategies are exercised
MaxTicks == 4
ShortTicks == 1
\* how many times the capability fires the readiness callback in one call
MaxReady == 2
\* how many justIdReady events the script tag receives in one call
MaxEvents == 2

TickMs == MsPerSec \div 2
StartMs == MsPerSec
MaxClock == StartMs + MaxTicks * TickMs

(***************************************************************************)
(* JavaScript values: a tag and the text String(v) gives                   *)
(***************************************************************************)
Str(s) == [t |-> "string", s |-> s]
Undefined == [t |-> "undefined", s |-> "undefined"]
Null == [t |-> "null", s |-> "null"]
Num7 == [t |-> "number", s |-> "7"]
Obj == [t |-> "object", s |-> "[object Object]"]

\* ToBoolean, as `a && b` and `a || b` apply it
Truthy(v) ==
  CASE v.t = "string" -> v.s # ""
    [] v.t = "number" -> v.s # "0"
    [] v.t = "object" -> TRUE
    [] OTHER -> FALSE

\* String(v), the text a cookie holds for v
StringOf(v) == v.s

\* utils.isStr
isStr(v) == v.t = "string"

\* utils.isEmptyStr: the uid that counts as "no identifier obtained"
isEmptyStr(v) == ~(v.t = "string" /\ v.s # "")

(***************************************************************************)
(* Decimal strings: the text of a number, as a sequence of digits          *)
(***************************************************************************)
RECURSIVE Digits(_)
\* String(n) for an integer n >= 0
Digits(n) == IF n < 10 THEN <<n>> ELSE Append(Digits(n \div 10), n % 10)

RECURSIVE StripZeros(_)
StripZeros(d) == IF Len(d) > 1 /\ Head(d) = 0 THEN StripZeros(Tail(d)) ELSE d

RECURSIVE LexLess(_, _)
LexLess(a, b) ==
  IF a = <<>> THEN FALSE
  ELSE IF Head(a) # Head(b) THEN Head(a) < Head(b)
  ELSE LexLess(Tail(a), Tail(b))

\* Number(a) < Number(b) for decimal strings a and b
NumLess(a, b) ==
  LET x == StripZeros(a)
      y == StripZeros(b)
  IN  IF Len(x) # Len(y) THEN Len(x) < Len(y) ELSE LexLess(x, y)

(***************************************************************************)
(* ConfigWrapper.  A raw config is undefined, null or an object; an absent *)
(* parameter is "" or 0, which `||` treats as it treats undefined.         *)
(***************************************************************************)
NoParams ==
  [defined |-> FALSE, mode |-> "", domain |-> "", partner |-> "",
   cookiePrefix |-> "", atmVarName |-> "",
   cookieTtlSeconds |-> 0, cookieRefreshSeconds |-> 0]

\* eoin: "empty object if null"
eoin(o) == IF o.defined THEN o ELSE NoParams

\* params(c) reads c.params, a TypeError when c is undefined or null
ParamsThrows(c) == c.kind \in {"undefined", "null"}
params(c) == eoin(c.params)

\* a || b for texts and for numbers
OrStr(a, b) == IF a # "" THEN a ELSE b
OrNum(a, b) == IF a # 0 THEN a ELSE b

\* new ConfigWrapper(config) throws when reading the cookie prefix does
ConfigWrapperThrows(c) == ParamsThrows(c)
cookiePrefix(c) == OrStr(params(c).cookiePrefix, "__jt")
getUidCookieName(c) == cookiePrefix(c) \o UID_COOKIE_SUFFIX
getUtCookieName(c) == cookiePrefix(c) \o UT_COOKIE_SUFFIX
getCookieTtlSeconds(c) == OrNum(params(c).cookieTtlSeconds, 2 * YEAR_IN_SECONDS)
getCookieRefreshSeconds(c) == OrNum(params(c).cookieRefreshSeconds, DAY_IN_SECONDS)
isExternalMode(c) == OrStr(params(c).mode, DEFAULT_MODE) = "EXTERNAL"
getAtmVarName(c) == OrStr(params(c).atmVarName, "__atm")

\* the hosts new URL() refuses (a TypeError)
InvalidHosts == {"bad host"}

\* the host of a parsed URL is in lower case
SerializeHost(d) == IF d = "Example.COM" THEN "example.com" ELSE d
\* searchParams.append encodes the value as a form field: a space is '+'
FormEncode(p) == IF p = "a b" THEN "a+b" ELSE p

\* getUrl: [ok |-> FALSE] when new URL throws, else the text of the URL
getUrlAlwaysQuery(c) ==
  LET domain == OrStr(params(c).domain, DEFAULT_DOMAIN)
      base == "https://" \o SerializeHost(domain) \o "/getId"
  IN  IF domain \in InvalidHosts THEN [ok |-> FALSE, url |-> ""]
      ELSE [ok |-> TRUE,
            url |-> base \o ".js" \o "?sourceId="
                      \o FormEncode(OrStr(params(c).partner, DEFAULT_PARTNER))]
getUrl(c) ==
  LET domain == OrStr(params(c).domain, DEFAULT_DOMAIN)
      base == "https://" \o SerializeHost(domain) \o "/getId"
  IN  IF domain \in InvalidHosts THEN [ok |-> FALSE, url |-> ""]
      ELSE IF isExternalMode(c)
        THEN [ok |-> TRUE,
              url |-> base \o ".js" \o "?sourceId="
                        \o FormEncode(OrStr(params(c).partner, DEFAULT_PARTNER))]
        ELSE [ok |-> TRUE, url |-> base]

(***************************************************************************)
(* The cookie store behind storage.getCookie / storage.setCookie.  A       *)
(* cookie holds text: the text of a number is its decimal digits.          *)
(***************************************************************************)
Prefixes == {"__jt", "pfx"}
UidNames == {p \o UID_COOKIE_SUFFIX : p \in Prefixes}
UtNames == {p \o UT_COOKIE_SUFFIX : p \in Prefixes}
CookieNames == UidNames \cup UtNames

NoCookie(name) ==
  [present |-> FALSE, v |-> IF name \in UtNames THEN <<>> ELSE "",
   expires |-> 0, domain |-> "", writtenAt |-> 0]

\* the cookie is there until its expiry time (whole seconds) has come
Stored(jar, name, clock) ==
  jar[name].present /\ (clock \div MsPerSec) < jar[name].expires

\* storage.getCookie(name): the text of the cookie, or null
getCookie(jar, name, clock) ==
  IF Stored(jar, name, clock) THEN Str(jar[name].v) ELSE Null

\* storage.setCookie(name, text, expires, null, domain)
setCookie(jar, name, text, expires, domain, clock) ==
  [jar EXCEPT ![name] =
     [present |-> TRUE, v |-> text, expires |-> expires,
      domain |-> IF Truthy(domain) THEN StringOf(domain) ELSE "",
      writtenAt |-> clock]]

\* new Date(clock + ttl * 1000).toUTCString(): whole seconds, the
\* milliseconds dropped; (clock + ttl*1000) \div 1000 = clock \div 1000 + ttl
toUTCString(clock, ttl) == (clock \div MsPerSec) + ttl

(***************************************************************************)
(* One resolution call: the state of getId(config, ...).callback(cbFun)    *)
(***************************************************************************)
NoArg == [has |-> FALSE, uid |-> Undefined, threw |-> FALSE]
UidArg(uid) == [has |-> TRUE, uid |-> uid, threw |-> FALSE]
NoConfig == [kind |-> "undefined", params |-> NoParams]
Nothing == [got |-> FALSE, v |-> Undefined]
Got(v) == [got |-> TRUE, v |-> v]
NoResponse == [body |-> "none", uid |-> Undefined, tld |-> Undefined]
\* the detail of a prebidGetId event, and of a justIdReady event
NoRequest == [sent |-> FALSE, config |-> NoConfig, consentData |-> "undefined",
              cacheIdObj |-> "undefined"]
NoSignal == [defined |-> FALSE, justId |-> Undefined]

IdleCall ==
  [started |-> FALSE,
   config |-> NoConfig,        \* the raw config given to getId
   atm |-> "absent",           \* what window[atmVarName] is
   syncThrown |-> FALSE,       \* an exception reached the catch of line 606
   hostFault |-> FALSE,        \* an exception or rejection nobody handles
   tm |-> "none",              \* the timer of promiseWithTimeout
   readyP |-> "none",          \* the promise of promiseWithTimeout
   readyAsked |-> FALSE,       \* the capability holds the readiness callback
   readyCalls |-> 0,           \* times the capability invoked it
   versionCalls |-> 0,         \* atm('getVersion') calls
   versionP |-> "none",        \* the future getVersion returned
   uidCalls |-> 0,             \* atm('getUid') calls
   uidP |-> "none",            \* the future getUid returned
   probeFail |-> "none",       \* why the probe failed
   catches |-> 0,              \* times the handler of line 585 ran
   dispatched |-> "none",      \* the provider line 588 selected
   prevStoredId |-> Null,      \* InternalUidProvider: the cookies read
   uidTime |-> Null,
   now |-> 0,
   reads |-> 0,                \* storage.getCookie calls
   writes |-> 0,               \* storage.setCookie calls
   provP |-> "none",           \* the promise of the provider's getUid
   postTimer |-> "none",       \* the setTimeout(..., 1) of line 676
   postCount |-> 0,            \* ajax calls
   postUrl |-> "",
   inflight |-> FALSE,         \* a request awaits success or error
   injected |-> "",            \* the src of the script tag appended
   listener |-> FALSE,         \* the justIdReady listener is registered
   loaded |-> FALSE,           \* onload ran
   requests |-> 0,             \* prebidGetId events dispatched
   events |-> 0,               \* justIdReady events received
   cbArgs |-> <<>>,            \* the invocations of cbFun, in order
   version |-> Nothing,        \* what getVersion yielded
   yielded |-> Nothing,        \* the uid that reached .then(uid => ...)
   response |-> NoResponse,    \* what the transport gave to success
   cachedAt |-> 0,             \* when the cookie read as prevStoredId was written
   consentData |-> "undefined",  \* the second argument of getId
   cacheIdObj |-> "undefined",   \* the third argument of getId
   listenedAtInject |-> FALSE, \* the listener was there at appendChild
   request |-> NoRequest,      \* the detail of the prebidGetId event sent
   signal |-> NoSignal]        \* the detail of the justIdReady that resolved

\* a promise settles once: [state, fired] from its state and an outcome
SettleTwice(p, outcome) == [state |-> outcome, fired |-> TRUE]
Settle(p, outcome) ==
  [state |-> IF p = "pending" THEN outcome ELSE p, fired |-> p = "pending"]

\* cbFun(arg): recorded with whether it threw; e.throws says which of the
\* caller's invocations throw (cbFun is the caller's code)
Throws(r, e) ==
  LET k == Len(r.cbArgs) + 1 IN k <= Len(e.throws) /\ e.throws[k]
cbFun(r, e, arg) ==
  [r EXCEPT !.cbArgs = Append(@, [arg EXCEPT !.threw = Throws(r, e)])]

\* .catch(err => { cbFun(); }), the last link of the chain
OnError(r, e) ==
  LET r1 == cbFun(r, e, NoArg)
  IN  IF Throws(r, e) THEN [r1 EXCEPT !.hostFault = TRUE] ELSE r1

\* .then(uid => ...) and, when cbFun throws in it, the .catch after it
OnUidNoCheck(r, e, uid) ==
  LET r0 == [r EXCEPT !.yielded = Got(uid)]
      r1 == cbFun(r0, e, UidArg(uid))
  IN  IF Throws(r0, e) THEN OnError(r1, e) ELSE r1
OnUid(r, e, uid) ==
  LET r0 == [r EXCEPT !.yielded = Got(uid)]
      arg == IF isEmptyStr(uid) THEN NoArg ELSE UidArg(uid)
      r1 == cbFun(r0, e, arg)
  IN  IF Throws(r0, e) THEN OnError(r1, e) ELSE r1

\* resolve / reject of the provider's promise, and the reaction it queues
ResolveProvider(r, e, uid) ==
  LET s == Settle(r.provP, "resolved")
  IN  IF s.fired THEN OnUid([r EXCEPT !.provP = s.state], e, uid) ELSE r
RejectProvider(r, e) ==
  LET s == Settle(r.provP, "rejected")
  IN  IF s.fired THEN OnError([r EXCEPT !.provP = s.state], e) ELSE r

(***************************************************************************)
(* InternalUidProvider                                                     *)
(***************************************************************************)
\* uidTime + refresh * 1000: text + number is the two texts joined,
\* null + number is the number
Deadline(uidTime, refreshSeconds) ==
  IF uidTime.t = "string" THEN uidTime.s \o Digits(refreshSeconds * MsPerSec)
  ELSE Digits(refreshSeconds * MsPerSec)

\* prevStoredId && now < uidTime + refresh * 1000
IsFreshFlipped(r) ==
  /\ Truthy(r.prevStoredId)
  /\ NumLess(Deadline(r.uidTime, getCookieRefreshSeconds(r.config)), Digits(r.now))
IsFresh(r) ==
  /\ Truthy(r.prevStoredId)
  /\ NumLess(Digits(r.now), Deadline(r.uidTime, getCookieRefreshSeconds(r.config)))

\* the constructor: both cookies and the time are read here
InternalUidProvider(r, e) ==
  [r EXCEPT !.dispatched = "internal",
            !.prevStoredId = getCookie(e.jar, getUidCookieName(r.config), e.clock),
            !.uidTime = getCookie(e.jar, getUtCookieName(r.config), e.clock),
            !.now = e.clock,
            !.reads = @ + 2,
            !.cachedAt = e.jar[getUidCookieName(r.config)].writtenAt]

\* getUid: the cached uid, or the request one millisecond later
InternalGetUid(r, e) ==
  LET r1 == [r EXCEPT !.provP = "pending"]
  IN  IF IsFresh(r1) THEN ResolveProvider(r1, e, r1.prevStoredId)
      ELSE [r1 EXCEPT !.postTimer = "armed"]

\* the timer callback: ajax(configWrapper.getUrl(), ...); a throw of getUrl
\* has no handler here
PostRequest(r) ==
  LET u == getUrl(r.config)
      r1 == [r EXCEPT !.postTimer = "fired"]
  IN  IF ~u.ok THEN [r1 EXCEPT !.hostFault = TRUE]
      ELSE [r1 EXCEPT !.postCount = @ + 1, !.postUrl = u.url, !.inflight = TRUE]

\* setUidCookie(uid, tld)
setUidCookieKeepsTime(r, e, uid, tld) ==
  LET expires == toUTCString(e.clock, getCookieTtlSeconds(r.config))
      j1 == setCookie(e.jar, getUidCookieName(r.config), StringOf(uid),
                      expires, tld, e.clock)
  IN  IF e.jar[getUtCookieName(r.config)].present THEN j1
      ELSE setCookie(j1, getUtCookieName(r.config), Digits(r.now), expires, tld, e.clock)
setUidCookie(r, e, uid, tld) ==
  LET expires == toUTCString(e.clock, getCookieTtlSeconds(r.config))
      j1 == setCookie(e.jar, getUidCookieName(r.config), StringOf(uid),
                      expires, tld, e.clock)
  IN  setCookie(j1, getUtCookieName(r.config), Digits(r.now), expires, tld, e.clock)

\* utils.isEmpty(response) and JSON.parse(response)
isEmpty(resp) == resp.body = "empty"
JSONparse(resp) ==
  [ok |-> resp.body \in {"null", "object"}, isNull |-> resp.body = "null",
   uid |-> resp.uid, tld |-> resp.tld]

\* idServerCallback(...).success(response): the call and the cookie jar after
successAlwaysWrites(r, e, resp) ==
  LET r0 == [r EXCEPT !.inflight = FALSE, !.response = resp]
      p == JSONparse(resp)
  IN  IF isEmpty(resp) \/ ~p.ok \/ p.isNull
        THEN [call |-> [RejectProvider(r0, e) EXCEPT !.writes = @ + 2],
              jar |-> setUidCookie(r0, e, Undefined, Undefined)]
        ELSE [call |-> [ResolveProvider(r0, e, p.uid) EXCEPT !.writes = @ + 2],
              jar |-> setUidCookie(r0, e, p.uid, p.tld)]
successLenient(r, e, resp) ==
  LET r0 == [r EXCEPT !.inflight = FALSE, !.response = resp]
      p == JSONparse(resp)
      uid == IF p.ok /\ ~p.isNull THEN p.uid ELSE Undefined
      tld == IF p.ok /\ ~p.isNull THEN p.tld ELSE Undefined
  IN  [call |-> [ResolveProvider(r0, e, uid) EXCEPT !.writes = @ + 2],
       jar |-> setUidCookie(r0, e, uid, tld)]
success(r, e, resp) ==
  LET r0 == [r EXCEPT !.inflight = FALSE, !.response = resp]
      p == JSONparse(resp)
  IN  IF isEmpty(resp) \/ ~p.ok \/ p.isNull
        THEN [call |-> RejectProvider(r0, e), jar |-> e.jar]
        ELSE [call |-> [ResolveProvider(r0, e, p.uid) EXCEPT !.writes = @ + 2],
              jar |-> setUidCookie(r0, e, p.uid, p.tld)]

\* idServerCallback(...).error(error)
errorRetries(r, e) == [r EXCEPT !.inflight = FALSE, !.postTimer = "armed"]
error(r, e) == RejectProvider([r EXCEPT !.inflight = FALSE], e)

(***************************************************************************)
(* ExternalUidProvider                                                     *)
(***************************************************************************)
\* the listener of justIdReady: resolve(event.detail && event.detail.justId)
justIdReady(r, e, detail) ==
  ResolveProvider([r EXCEPT !.events = @ + 1,
                            !.signal = IF r.provP = "pending" THEN detail ELSE @], e,
                  IF detail.defined THEN detail.justId ELSE Null)

\* the constructor (getUrl may throw) and getUid: listener, onload, append
ExternalGetUid(r, e) ==
  LET u == getUrl(r.config)
      r1 == [r EXCEPT !.dispatched = "external"]
  IN  IF ~u.ok THEN OnError(r1, e)
      ELSE LET r2 == [r1 EXCEPT !.provP = "pending", !.listener = TRUE]
           IN  [r2 EXCEPT !.injected = u.url, !.listenedAtInject = r2.listener]

\* scriptTag.onload, were the load itself to resolve the promise
onloadResolves(r, e, reply) ==
  ResolveProvider([r EXCEPT !.loaded = TRUE, !.requests = @ + 1], e, Null)
\* scriptTag.onload: the prebidGetId event, which the loaded script may
\* answer at once with a justIdReady event
onloadWithoutCache(r, e, reply) ==
  LET r1 == [r EXCEPT !.loaded = TRUE, !.requests = @ + 1,
                      !.request = [sent |-> TRUE, config |-> r.config,
                                   consentData |-> r.consentData,
                                   cacheIdObj |-> "undefined"]]
  IN  IF reply.answers THEN justIdReady(r1, e, reply.detail) ELSE r1
onload(r, e, reply) ==
  LET r1 == [r EXCEPT !.loaded = TRUE, !.requests = @ + 1,
                      !.request = [sent |-> TRUE, config |-> r.config,
                                   consentData |-> r.consentData,
                                   cacheIdObj |-> r.cacheIdObj]]
  IN  IF reply.answers THEN justIdReady(r1, e, reply.detail) ELSE r1

(***************************************************************************)
(* The orchestrator and AtmUidProvider.  e is what the handler finds       *)
(* around it: the cookie jar, the clock, and what the capability does      *)
(* when a command reaches it.                                              *)
(***************************************************************************)
\* .catch(cause => ...): the provider the mode selects, and its getUid
OnProbeFailGivesUp(r, e, cause) ==
  OnError([r EXCEPT !.probeFail = cause, !.catches = @ + 1], e)
OnProbeFail(r, e, cause) ==
  LET r1 == [r EXCEPT !.probeFail = cause, !.catches = @ + 1]
  IN  IF isExternalMode(r1.config) THEN ExternalGetUid(r1, e)
      ELSE InternalGetUid(InternalUidProvider(r1, e), e)

\* return atm('getUid'): a value, a future or a throw
GetUidCmdWithProvider(r, e) ==
  LET r1 == InternalUidProvider([r EXCEPT !.uidCalls = @ + 1], e)
  IN  CASE e.uid.how = "value" -> OnUid(r1, e, e.uid.v)
        [] e.uid.how = "future" -> [r1 EXCEPT !.uidP = "pending"]
        [] OTHER -> OnProbeFail(r1, e, "command")
GetUidCmd(r, e) ==
  LET r1 == [r EXCEPT !.uidCalls = @ + 1]
  IN  CASE e.uid.how = "value" -> OnUid(r1, e, e.uid.v)
        [] e.uid.how = "future" -> [r1 EXCEPT !.uidP = "pending"]
        [] OTHER -> OnProbeFail(r1, e, "command")

\* .then(atmVersion => ...): getUid only when the version is a string
OnVersionNoGate(r, e, atmVersion) ==
  GetUidCmd([r EXCEPT !.version = Got(atmVersion)], e)
OnVersion(r, e, atmVersion) ==
  LET r1 == [r EXCEPT !.version = Got(atmVersion)]
  IN  IF isStr(atmVersion) THEN GetUidCmd(r1, e)
      ELSE OnProbeFail(r1, e, "unsupported")

\* .then(() => atm('getVersion')): a value, a future or a throw
OnReadyRaced(r, e) ==
  LET r0 == InternalGetUid(InternalUidProvider(r, e), e)
      r1 == [r0 EXCEPT !.versionCalls = @ + 1]
  IN  CASE e.ver.how = "value" -> OnVersion(r1, e, e.ver.v)
        [] e.ver.how = "future" -> [r1 EXCEPT !.versionP = "pending"]
        [] OTHER -> OnProbeFail(r1, e, "command")
OnReady(r, e) ==
  LET r1 == [r EXCEPT !.versionCalls = @ + 1]
  IN  CASE e.ver.how = "value" -> OnVersion(r1, e, e.ver.v)
        [] e.ver.how = "future" -> [r1 EXCEPT !.versionP = "pending"]
        [] OTHER -> OnProbeFail(r1, e, "command")

\* callAndClearTimeout(resolve)(arg), the readiness callback
resEveryTime(r, e) ==
  OnReady([r EXCEPT !.readyCalls = @ + 1,
                    !.tm = IF @ = "armed" THEN "cleared" ELSE @,
                    !.readyP = "resolved"], e)
res(r, e) ==
  LET s == Settle(r.readyP, "resolved")
      r1 == [r EXCEPT !.readyCalls = @ + 1,
                      !.tm = IF @ = "armed" THEN "cleared" ELSE @,
                      !.readyP = s.state]
  IN  IF s.fired THEN OnReady(r1, e) ELSE r1

\* the timer of promiseWithTimeout: reject(new Error('timeout'))
timeout(r, e) ==
  LET s == Settle(r.readyP, "rejected")
      r1 == [r EXCEPT !.tm = "fired", !.readyP = s.state]
  IN  IF s.fired THEN OnProbeFail(r1, e, "timeout") ELSE r1

\* AtmUidProvider.getUid
AtmGetUidNoTypeCheck(r, e) ==
  LET r1 == [r EXCEPT !.tm = "armed", !.readyP = "pending", !.readyAsked = TRUE]
  IN  CASE e.ready = "sync" -> res(r1, e)
        [] e.ready = "throw" ->
             OnProbeFail([r1 EXCEPT !.readyP = "rejected"], e, "command")
        [] OTHER -> r1
AtmGetUid(r, e) ==
  IF r.atm # "function" THEN OnProbeFail(r, e, "absent")
  ELSE LET r1 == [r EXCEPT !.tm = "armed", !.readyP = "pending",
                           !.readyAsked = TRUE]
       IN  CASE e.ready = "sync" -> res(r1, e)
             [] e.ready = "throw" ->
                  OnProbeFail([r1 EXCEPT !.readyP = "rejected"], e, "command")
             [] OTHER -> r1

\* callback(cbFun), with its try / catch
callback(r, e) ==
  IF ConfigWrapperThrows(r.config) \/ r.atm = "lookupThrows"
    THEN [r EXCEPT !.syncThrown = TRUE]
    ELSE AtmGetUid(r, e)

(***************************************************************************)
(* decode.  A stored value is undefined, null or an object with a uid; the *)
(* result is an object {justId} or the falsy value && leaves.              *)
(***************************************************************************)
Falsy(v) == [object |-> FALSE, justId |-> Undefined, v |-> v, threw |-> FALSE]
JustId(uid) == [object |-> TRUE, justId |-> uid, v |-> Undefined, threw |-> FALSE]
TypeError == [object |-> FALSE, justId |-> Undefined, v |-> Undefined, threw |-> TRUE]
\* the value itself, as a JavaScript value
ValueOf(value) ==
  CASE value.kind = "undefined" -> Undefined
    [] value.kind = "null" -> Null
    [] OTHER -> Obj

\* decode(value): value && value.uid, then justId && {justId: justId}
decodeUnguarded(value) ==
  IF value.kind # "object" THEN TypeError
  ELSE IF Truthy(value.uid) THEN JustId(value.uid) ELSE Falsy(value.uid)
decode(value) ==
  LET justId == IF Truthy(ValueOf(value)) THEN value.uid ELSE ValueOf(value)
  IN  IF Truthy(justId) THEN JustId(justId) ELSE Falsy(justId)

(***************************************************************************)
(* Inputs                                                                  *)
(***************************************************************************)
P(mode, domain, ttl, refresh) ==
  [kind |-> "object",
   params |-> [NoParams EXCEPT !.defined = TRUE, !.mode = mode, !.domain = domain,
                               !.cookieTtlSeconds = ttl,
                               !.cookieRefreshSeconds = refresh]]
\* the raw configs of the calls that exercise the probe and both providers
Configs ==
  { NoConfig, [kind |-> "null", params |-> NoParams],
    [kind |-> "object", params |-> NoParams],
    P("INTERNAL", "", 0, 0), P("INTERNAL", "bad host", 0, 0),
    P("EXTERNAL", "", 0, 0), P("EXTERNAL", "bad host", 0, 0),
    P("ADVENCED", "", 0, 0) }
\* the raw configs of the calls that age the cache
CacheConfigs ==
  { P("INTERNAL", "", ttl, refresh) : ttl \in {0, 2}, refresh \in {1, 2} }
\* the raw configs that exercise every accessor of ConfigWrapper
WrapperConfigs ==
  { NoConfig, [kind |-> "null", params |-> NoParams],
    [kind |-> "object", params |-> NoParams] }
  \cup
  { [kind |-> "object",
     params |-> [defined |-> TRUE, mode |-> m, domain |-> d, partner |-> p,
                 cookiePrefix |-> x, atmVarName |-> a,
                 cookieTtlSeconds |-> t, cookieRefreshSeconds |-> f]] :
      m \in {"", "INTERNAL", "EXTERNAL", "ADVENCED"},
      d \in {"", "example.com", "Example.COM", "bad host"},
      p \in {"", "abc", "a b"}, x \in {"", "pfx"}, a \in {"", "__myatm"},
      t \in {0, 60}, f \in {0, 30} }
AtmKinds == {"absent", "notFunction", "function", "lookupThrows"}
UidValues == {Str("u1"), Str(""), Undefined, Null, Num7, Obj}
VersionValues == {Str("1.0"), Undefined, Num7}
Value(v) == [how |-> "value", v |-> v]
Future == [how |-> "future", v |-> Undefined]
Throw == [how |-> "throw", v |-> Undefined]
UidOutcomes == {Value(v) : v \in UidValues} \cup {Future, Throw}
VersionOutcomes == {Value(v) : v \in VersionValues} \cup {Future, Throw}
Responses ==
  {[body |-> b, uid |-> Undefined, tld |-> Undefined] : b \in {"empty", "garbage", "null"}}
  \cup {[body |-> "object", uid |-> u, tld |-> d] :
          u \in {Str("u1"), Str("u2"), Str(""), Undefined, Num7},
          d \in {Undefined, Str("example.com")}}
NoDetail == [defined |-> FALSE, justId |-> Undefined]
Details ==
  {NoDetail} \cup {[defined |-> TRUE, justId |-> v] : v \in {Str("u1"), Str(""), Undefined}}
Replies ==
  {[answers |-> FALSE, detail |-> NoDetail]}
  \cup {[answers |-> TRUE, detail |-> d] : d \in Details}
\* the stored values the host hands to decode
DecodeValues ==
  {[kind |-> k, uid |-> Undefined] : k \in {"undefined", "null"}}
  \cup {[kind |-> "object", uid |-> u] :
          u \in {Str("aaa"), Str(""), Undefined, Null, Num7}}
NotDecoded == [called |-> FALSE, value |-> [kind |-> "undefined", uid |-> Undefined],
               result |-> Falsy(Undefined)]
\* the consent data and the cached id objects given to getId
Consents == {"undefined", "consentB"}
CacheIds == {"undefined", "cachedC"}
\* the raw configs that select the external provider
ExternalConfigs ==
  { [kind |-> "object", params |-> NoParams],
    P("EXTERNAL", "", 0, 0), P("EXTERNAL", "example.com", 0, 0) }
\* which invocations of cbFun throw: none, the first, the first two
Quiet == <<FALSE, FALSE>>
ThrowPlans == {Quiet, <<TRUE, FALSE>>, <<TRUE, TRUE>>}

(***************************************************************************)
(* State and actions                                                       *)
(***************************************************************************)
VARIABLES calls, jar, clock, decoded
vars == <<calls, jar, clock, decoded>>

\* the calls that run one after another use one slot
Sequential == {1}

Env(ready, ver, uid, throws) ==
  [jar |-> jar, clock |-> clock, ready |-> ready, ver |-> ver, uid |-> uid,
   throws |-> throws]
Plain(throws) == Env("later", Throw, Throw, throws)
\* what the capability does is asked only where a command can reach it, and
\* what cbFun does only where it is invoked
VersionsIf(reached) == IF reached THEN VersionOutcomes ELSE {Throw}
UidsIf(ver) == IF ver.how = "value" /\ isStr(ver.v) THEN UidOutcomes ELSE {Throw}
PlansIf(before, after) ==
  IF after.cbArgs # before.cbArgs THEN ThrowPlans ELSE {Quiet}

\* the call is over for its caller: cbFun ran, or an exception ended it
Finished(r) == r.started /\ (r.cbArgs # <<>> \/ r.syncThrown \/ r.hostFault)

Init ==
  /\ calls = [c \in Sequential |-> IdleCall]
  /\ jar = [n \in CookieNames |-> NoCookie(n)]
  /\ clock = StartMs
  /\ decoded = NotDecoded

\* justIdSubmodule.getId(config, consentData, cacheIdObj).callback(cbFun)
GetIdCallback(c, configs, atms, consents, cacheIds) ==
  /\ ~calls[c].started
  /\ \E config \in configs, atm \in atms, consent \in consents, cacheId \in cacheIds :
       \E ready \in IF atm = "function" THEN {"sync", "throw", "later"} ELSE {"later"} :
         \E ver \in VersionsIf(ready = "sync") :
           \E uid \in UidsIf(ver) :
             LET r == [IdleCall EXCEPT !.started = TRUE, !.config = config, !.atm = atm,
                                       !.consentData = consent, !.cacheIdObj = cacheId]
             IN  \E th \in PlansIf(r, callback(r, Env(ready, ver, uid, Quiet))) :
                   calls' = [calls EXCEPT ![c] = callback(r, Env(ready, ver, uid, th))]
  /\ UNCHANGED <<jar, clock, decoded>>

\* justIdSubmodule.getId(config).callback(cbFun)
Callback(c, configs, atms) ==
  /\ ~calls[c].started
  /\ \E config \in configs, atm \in atms :
       \E ready \in IF atm = "function" THEN {"sync", "throw", "later"} ELSE {"later"} :
         \E ver \in VersionsIf(ready = "sync") :
           \E uid \in UidsIf(ver) :
             LET r == [IdleCall EXCEPT !.started = TRUE, !.config = config, !.atm = atm]
             IN  \E th \in PlansIf(r, callback(r, Env(ready, ver, uid, Quiet))) :
                   calls' = [calls EXCEPT ![c] = callback(r, Env(ready, ver, uid, th))]
  /\ UNCHANGED <<jar, clock, decoded>>

\* the caller is done with a finished call; the next one may start
Release(c) ==
  /\ Finished(calls[c])
  /\ calls' = [calls EXCEPT ![c] = IdleCall]
  /\ UNCHANGED <<jar, clock, decoded>>

\* the capability fires the readiness callback
ReadySignal(c) ==
  /\ calls[c].readyAsked
  /\ calls[c].readyCalls < MaxReady
  /\ \E ver \in VersionOutcomes :
       \E uid \in UidsIf(ver) :
         \E th \in PlansIf(calls[c], res(calls[c], Env("later", ver, uid, Quiet))) :
           calls' = [calls EXCEPT ![c] = res(@, Env("later", ver, uid, th))]
  /\ UNCHANGED <<jar, clock, decoded>>

\* the 5000 ms timer fires
ProbeTimeout(c) ==
  /\ calls[c].tm = "armed"
  /\ \E th \in PlansIf(calls[c], timeout(calls[c], Plain(Quiet))) :
       calls' = [calls EXCEPT ![c] = timeout(@, Plain(th))]
  /\ UNCHANGED <<jar, clock, decoded>>

\* the future getVersion returned settles
settleVersion(r, e) ==
  LET r1 == [r EXCEPT !.versionP = "settled"]
  IN  IF e.ver.how = "value" THEN OnVersion(r1, e, e.ver.v)
      ELSE OnProbeFail(r1, e, "command")
VersionSettles(c) ==
  /\ calls[c].versionP = "pending"
  /\ \E ver \in VersionOutcomes \ {Future} :
       \E uid \in UidsIf(ver) :
         \E th \in PlansIf(calls[c], settleVersion(calls[c], Env("later", ver, uid, Quiet))) :
           calls' = [calls EXCEPT ![c] = settleVersion(@, Env("later", ver, uid, th))]
  /\ UNCHANGED <<jar, clock, decoded>>

\* the future getUid returned settles
settleUid(r, e) ==
  LET r1 == [r EXCEPT !.uidP = "settled"]
  IN  IF e.uid.how = "value" THEN OnUid(r1, e, e.uid.v)
      ELSE OnProbeFail(r1, e, "command")
UidSettles(c) ==
  /\ calls[c].uidP = "pending"
  /\ \E uid \in UidOutcomes \ {Future} :
       \E th \in PlansIf(calls[c], settleUid(calls[c], Env("later", Throw, uid, Quiet))) :
         calls' = [calls EXCEPT ![c] = settleUid(@, Env("later", Throw, uid, th))]
  /\ UNCHANGED <<jar, clock, decoded>>

\* the setTimeout(..., 1) of InternalUidProvider.getUid fires
PostTimer(c) ==
  /\ calls[c].postTimer = "armed"
  /\ calls' = [calls EXCEPT ![c] = PostRequest(@)]
  /\ UNCHANGED <<jar, clock, decoded>>

\* the transport calls success(response)
ServerSuccess(c) ==
  /\ calls[c].inflight
  /\ \E resp \in Responses, th \in ThrowPlans :
       LET out == success(calls[c], Plain(th), resp)
       IN  /\ calls' = [calls EXCEPT ![c] = out.call]
           /\ jar' = out.jar
  /\ UNCHANGED <<clock, decoded>>

\* the transport calls error(error)
ServerError(c) ==
  /\ calls[c].inflight
  /\ \E th \in ThrowPlans : calls' = [calls EXCEPT ![c] = error(@, Plain(th))]
  /\ UNCHANGED <<jar, clock, decoded>>

\* the injected script has loaded
ScriptLoad(c) ==
  /\ calls[c].injected # ""
  /\ ~calls[c].loaded
  /\ \E reply \in Replies :
       \E th \in PlansIf(calls[c], onload(calls[c], Plain(Quiet), reply)) :
         calls' = [calls EXCEPT ![c] = onload(@, Plain(th), reply)]
  /\ UNCHANGED <<jar, clock, decoded>>

\* a justIdReady event reaches the script tag
JustIdReady(c) ==
  /\ calls[c].listener
  /\ calls[c].events < MaxEvents
  /\ \E detail \in Details :
       \E th \in PlansIf(calls[c], justIdReady(calls[c], Plain(Quiet), detail)) :
         calls' = [calls EXCEPT ![c] = justIdReady(@, Plain(th), detail)]
  /\ UNCHANGED <<jar, clock, decoded>>

\* the objects cbFun was given, which the host stores and decodes later
Delivered ==
  {[kind |-> "object", uid |-> calls[c].cbArgs[1].uid] :
     c \in {d \in DOMAIN calls :
              calls[d].cbArgs # <<>> /\ calls[d].cbArgs[1].has}}

\* justIdSubmodule.decode(value)
Decode ==
  /\ \E value \in DecodeValues \cup Delivered :
       decoded' = [called |-> TRUE, value |-> value, result |-> decode(value)]
  /\ UNCHANGED <<calls, jar, clock>>

\* time passes
Tick(limit) ==
  /\ clock < limit
  /\ clock' = clock + TickMs
  /\ UNCHANGED <<calls, jar, decoded>>

\* every strategy, every kind of config; the clock moves little
Next ==
  \/ \E c \in Sequential :
       \/ Callback(c, Configs, AtmKinds)
       \/ Release(c)
       \/ ReadySignal(c)
       \/ ProbeTimeout(c)
       \/ VersionSettles(c)
       \/ UidSettles(c)
       \/ PostTimer(c)
       \/ ServerSuccess(c)
       \/ ServerError(c)
       \/ ScriptLoad(c)
       \/ JustIdReady(c)
  \/ Tick(StartMs + ShortTicks * TickMs)

Spec == Init /\ [][Next]_vars

\* INTERNAL mode with the capability absent, while the cache ages
CacheNext ==
  \/ \E c \in Sequential :
       \/ Callback(c, CacheConfigs, {"absent"})
       \/ Release(c)
       \/ PostTimer(c)
       \/ ServerSuccess(c)
       \/ ServerError(c)
  \/ Tick(MaxClock)

CacheSpec == Init /\ [][CacheNext]_vars

\* every strategy and every kind of config at one instant of the clock
ProbeNext ==
  \E c \in Sequential :
    \/ Callback(c, Configs, AtmKinds)
    \/ Release(c)
    \/ ReadySignal(c)
    \/ ProbeTimeout(c)
    \/ VersionSettles(c)
    \/ UidSettles(c)
    \/ PostTimer(c)
    \/ ServerSuccess(c)
    \/ ServerError(c)
    \/ ScriptLoad(c)
    \/ JustIdReady(c)

ProbeSpec == Init /\ [][ProbeNext]_vars

\* every config, the capability absent: the ConfigWrapper is constructed and
\* the URL it gives is used by the script tag or by the request
ConfigNext ==
  \E c \in Sequential :
    \/ Callback(c, WrapperConfigs, {"absent"})
    \/ Release(c)
    \/ PostTimer(c)

ConfigSpec == Init /\ [][ConfigNext]_vars

\* the host decodes stored values while INTERNAL-mode calls resolve
DecodeNext ==
  \/ \E c \in Sequential :
       \/ Callback(c, CacheConfigs, {"absent"})
       \/ Release(c)
       \/ PostTimer(c)
       \/ ServerSuccess(c)
       \/ ServerError(c)
  \/ Decode

DecodeSpec == Init /\ [][DecodeNext]_vars

\* the external provider with every combination of getId's arguments
ExternalNext ==
  \E c \in Sequential :
    \/ GetIdCallback(c, ExternalConfigs, {"absent", "notFunction"}, Consents, CacheIds)
    \/ Release(c)
    \/ ScriptLoad(c)
    \/ JustIdReady(c)

ExternalSpec == Init /\ [][ExternalNext]_vars

\* two calls in INTERNAL mode share the cookies; either may start, post and
\* be answered while the other is under way
Overlapping == {1, 2}
OverlapConfigs == { P("INTERNAL", "", 2, 1) }

OverlapInit ==
  /\ calls = [c \in Overlapping |-> IdleCall]
  /\ jar = [n \in CookieNames |-> NoCookie(n)]
  /\ clock = StartMs
  /\ decoded = NotDecoded

OverlapNext ==
  \/ \E c \in Overlapping :
       \/ Callback(c, OverlapConfigs, {"absent"})
       \/ PostTimer(c)
       \/ ServerSuccess(c)
       \/ ServerError(c)
  \/ Tick(StartMs + ShortTicks * TickMs)

OverlapSpec == OverlapInit /\ [][OverlapNext]_vars

\* what the event loop and the environment owe a call: an armed timer
\* fires, a future a capability command returned settles, a request the
\* transport took is answered
Fairness ==
  \A c \in Sequential :
    /\ WF_vars(ProbeTimeout(c))
    /\ WF_vars(VersionSettles(c))
    /\ WF_vars(UidSettles(c))
    /\ WF_vars(PostTimer(c))
    /\ WF_vars(ServerSuccess(c) \/ ServerError(c))

FairSpec == Spec /\ Fairness

(***************************************************************************)
(* Properties                                                              *)
(***************************************************************************)
Invocations(c) == Len(calls[c].cbArgs)
InternalMode(r) == r.started /\ r.config.kind = "object" /\ params(r.config).mode = "INTERNAL"

\* C1: in one resolution call cbFun is invoked at most once, whatever the
\* interleaving of signals and whether or not cbFun throws.
C1_CallbackAtMostOnce == \A c \in DOMAIN calls : Invocations(c) <= 1

\* C2: in INTERNAL mode every resolution call (whose synchronous part did
\* not throw: that is C3) eventually invokes cbFun, given that timers fire,
\* futures settle and the transport answers.
C2_InternalCallAnswers ==
  \A c \in Sequential :
    (InternalMode(calls[c]) /\ ~calls[c].syncThrown) ~> (Invocations(c) >= 1)

\* C3: an exception thrown synchronously in the resolution call is caught at
\* the outermost boundary and cbFun is invoked with no argument.
C3_SyncThrowInvokesCallback ==
  \A c \in DOMAIN calls :
    calls[c].syncThrown =>
      /\ Invocations(c) = 1
      /\ ~calls[c].cbArgs[1].has
      /\ ~calls[c].hostFault

SelectedProvider(r) == IF isExternalMode(r.config) THEN "external" ELSE "internal"

\* C4: when the 5000 ms timer fires before readiness was signalled, the probe
\* fails with a timeout and the provider the mode selects is started; a
\* readiness signal after that changes nothing but the count of signals.
C4_TimeoutThenLateReadyIgnored ==
  [][\A c \in DOMAIN calls :
       LET r == calls[c]
           q == calls'[c]
       IN  /\ (r.tm = "armed" /\ r.readyP = "pending" /\ q.tm = "fired") =>
                (q.probeFail = "timeout" /\ q.dispatched = SelectedProvider(r)
                   /\ q.versionCalls = 0)
           /\ (r.probeFail = "timeout" /\ q.readyCalls = r.readyCalls + 1) =>
                q = [r EXCEPT !.readyCalls = @ + 1]]_vars

\* a call timed out, was answered once, and a readiness signal came after
C4_LateReadySeen ==
  \E c \in DOMAIN calls :
    /\ calls[c].probeFail = "timeout"
    /\ calls[c].readyCalls >= 1
    /\ Invocations(c) = 1

\* an InternalUidProvider that found a cache record: a uid cookie holding a
\* uid and the ut cookie that setUidCookie wrote with it
FoundRecord(r) ==
  /\ InternalMode(r)
  /\ r.atm = "absent"
  /\ r.dispatched = "internal"
  /\ isStr(r.prevStoredId) /\ r.prevStoredId.s # ""
  /\ isStr(r.uidTime)
\* the time between the writing of the record and the resolution, in ms
Age(r) == r.now - r.cachedAt
RefreshMs(r) == getCookieRefreshSeconds(r.config) * MsPerSec

\* C5: a resolution in INTERNAL mode, capability absent, half a refresh
\* interval after the record was written issues no request, writes no
\* cookie and hands the cached uid to cbFun.
C5_FreshRecordShortCircuits ==
  \A c \in DOMAIN calls :
    LET r == calls[c]
    IN  (FoundRecord(r) /\ 2 * Age(r) = RefreshMs(r)) =>
          /\ r.postTimer = "none"
          /\ r.postCount = 0
          /\ r.writes = 0
          /\ Invocations(c) >= 1
          /\ r.cbArgs[1].has
          /\ r.cbArgs[1].uid = r.prevStoredId

\* a record read half a refresh interval after it was written
C5_ReadAtHalfInterval ==
  \E c \in DOMAIN calls :
    /\ FoundRecord(calls[c])
    /\ 2 * Age(calls[c]) = RefreshMs(calls[c])
    /\ Invocations(c) >= 1

\* C6: a resolution in INTERNAL mode, capability absent, two refresh
\* intervals after the record was written (the record still in the store)
\* schedules the POST, and issues exactly one, instead of answering from
\* the cache.
C6_StaleRecordIsRefetched ==
  \A c \in DOMAIN calls :
    LET r == calls[c]
    IN  (FoundRecord(r) /\ Age(r) = 2 * RefreshMs(r)) =>
          /\ r.postTimer \in {"armed", "fired"}
          /\ r.postCount = (IF r.postTimer = "fired" THEN 1 ELSE 0)

\* success was given a body that parses to an object with a non-empty uid
GoodResponse(r) ==
  /\ r.response.body = "object"
  /\ isStr(r.response.uid) /\ r.response.uid.s # ""
\* the cookie written for this call's response
WrittenFor(r, name, text) ==
  /\ jar[name].present
  /\ jar[name].v = text
  /\ jar[name].expires =
       (jar[name].writtenAt \div MsPerSec) + getCookieTtlSeconds(r.config)
  /\ jar[name].domain = (IF isStr(r.response.tld) THEN r.response.tld.s ELSE "")

\* C7: after a response {uid: u, tld: d} with u a non-empty string, cbFun
\* has been invoked exactly once, with {uid: u}, and the store holds u under
\* <prefix>uid and a timestamp under <prefix>ut, both expiring at the time
\* of writing + cookieTtlSeconds and scoped to d.
C7_GoodResponseDeliveredAndStored ==
  \A c \in DOMAIN calls :
    LET r == calls[c]
    IN  GoodResponse(r) =>
          /\ Invocations(c) = 1
          /\ r.cbArgs[1].has
          /\ r.cbArgs[1].uid = r.response.uid
          /\ WrittenFor(r, getUidCookieName(r.config), r.response.uid.s)
          /\ WrittenFor(r, getUtCookieName(r.config), Digits(r.now))

\* C8: when success is given an empty body or one that is not JSON, cbFun is
\* invoked with no argument and the cookie store stays as it was.
C8_MalformedBodyWritesNothing ==
  [][\A c \in DOMAIN calls :
       LET r == calls[c]
           q == calls'[c]
       IN  (r.inflight /\ ~q.inflight /\ q.response.body \in {"empty", "garbage"}) =>
             /\ jar' = jar
             /\ q.writes = r.writes
             /\ Len(q.cbArgs) >= 1
             /\ \A i \in 1..Len(q.cbArgs) : ~q.cbArgs[i].has]_vars

\* a call whose request was answered with an empty or non-JSON body
C8_MalformedBodySeen ==
  \E c \in DOMAIN calls :
    /\ calls[c].response.body \in {"empty", "garbage"}
    /\ calls[c].postCount = 1
    /\ Invocations(c) >= 1

\* the uid that is no identifier: not a string, or the empty string
EmptyIdentifier(v) == v.t # "string" \/ v.s = ""

C10_NonStringVersionSkipsGetUid ==
  \A c \in DOMAIN calls :
    LET r == calls[c]
    IN  (r.version.got /\ r.version.v.t # "string") =>
          /\ r.uidCalls = 0
          /\ r.probeFail = "unsupported"
          /\ r.catches = 1
          /\ r.dispatched = SelectedProvider(r)

\* a future returned by getVersion settled with a value that is no string
C10_NonStringVersionSeen ==
  \E c \in DOMAIN calls :
    /\ calls[c].version.got
    /\ calls[c].version.v.t # "string"
    /\ calls[c].versionP = "settled"
    /\ calls[c].readyCalls >= 1

\* the call got past the ConfigWrapper and found no callable capability
NoCapability(r) ==
  r.started /\ ~r.syncThrown /\ r.atm \in {"absent", "notFunction"}

\* C11: when window[atmVarName] is absent or not a function, the probe has
\* failed by the time callback(cbFun) returns its first microtasks: no timer
\* was started, no command reached the capability, and the provider the mode
\* selects is already started.
C11_NoCapabilityFailsAtOnce ==
  \A c \in DOMAIN calls :
    LET r == calls[c]
    IN  NoCapability(r) =>
          /\ r.tm = "none"
          /\ r.readyP = "none"
          /\ ~r.readyAsked
          /\ r.readyCalls = 0 /\ r.versionCalls = 0 /\ r.uidCalls = 0
          /\ r.probeFail = "absent"
          /\ r.catches = 1
          /\ r.dispatched = SelectedProvider(r)

\* a call that found something that is not a function under the name
C11_NotCallableSeen ==
  \E c \in DOMAIN calls :
    /\ NoCapability(calls[c])
    /\ calls[c].atm = "notFunction"
    /\ calls[c].dispatched = "external"
    /\ calls[c].injected # ""

\* the probe went all the way: getUid was sent and yielded a non-empty text
ProbeSucceeded(r) ==
  /\ r.uidCalls = 1
  /\ r.probeFail = "none"
  /\ r.yielded.got
  /\ isStr(r.yielded.v) /\ r.yielded.v.s # ""

\* C12: when the probe succeeds with a non-empty string u, cbFun receives
\* {uid: u}, and in that call no POST is scheduled or issued, no script is
\* injected, no provider is constructed, and no cookie is read or written.
C12_ProbeSuccessTouchesNothingElse ==
  \A c \in DOMAIN calls :
    LET r == calls[c]
    IN  ProbeSucceeded(r) =>
          /\ Invocations(c) >= 1
          /\ r.cbArgs[1].has
          /\ r.cbArgs[1].uid = r.yielded.v
          /\ r.postTimer = "none" /\ r.postCount = 0 /\ ~r.inflight
          /\ r.injected = "" /\ ~r.listener
          /\ r.dispatched = "none" /\ r.catches = 0
          /\ r.reads = 0 /\ r.writes = 0

\* a probe that succeeded through the future getUid returned, after the
\* capability signalled readiness later than the call
C12_ProbeSuccessSeen ==
  \E c \in DOMAIN calls :
    /\ ProbeSucceeded(calls[c])
    /\ calls[c].uidP = "settled"
    /\ calls[c].tm = "cleared"
    /\ Invocations(c) >= 1

ProbeFailures == {"absent", "timeout", "unsupported", "command"}

RequestFails(r, q) ==
  /\ r.inflight /\ ~q.inflight
  /\ q.response.body \in {"none", "empty", "garbage", "null"}

\* C14: a call issues at most one POST; when the request fails (transport
\* error, empty body, body that does not parse) nothing is scheduled or
\* sent again, the cookies stay as they were and cbFun gets no argument.
C14_OnePostAndFailureIsTerminal ==
  [][\A c \in DOMAIN calls :
       LET r == calls[c]
           q == calls'[c]
       IN  /\ q.postCount <= 1
           /\ RequestFails(r, q) =>
                /\ jar' = jar
                /\ q.writes = r.writes
                /\ q.postCount = r.postCount
                /\ q.postTimer = "fired"
                /\ q.provP = "rejected"
                /\ Len(q.cbArgs) >= 1
                /\ \A i \in 1..Len(q.cbArgs) : ~q.cbArgs[i].has]_vars

\* a call whose only request ended in a transport error
C14_TransportErrorSeen ==
  \E c \in DOMAIN calls :
    /\ calls[c].postCount = 1
    /\ ~calls[c].inflight
    /\ calls[c].response = NoResponse
    /\ calls[c].provP = "rejected"
    /\ Invocations(c) >= 1

\* the call got past the ConfigWrapper with a config that sets no mode
ModeUnset(r) ==
  r.started /\ ~ConfigWrapperThrows(r.config) /\ params(r.config).mode = ""

C16_ConfigWrapperNeverThrows ==
  \A c \in DOMAIN calls :
    LET r == calls[c]
        cfg == r.config
    IN  r.started =>
          /\ ~r.syncThrown
          /\ ~ConfigWrapperThrows(cfg)
          /\ getUrl(cfg).ok
          /\ params(cfg).cookiePrefix = "" => cookiePrefix(cfg) = "__jt"
          /\ params(cfg).cookieTtlSeconds = 0 => getCookieTtlSeconds(cfg) = 63072000
          /\ params(cfg).cookieRefreshSeconds = 0 => getCookieRefreshSeconds(cfg) = 86400
          /\ params(cfg).atmVarName = "" => getAtmVarName(cfg) = "__atm"

\* the domain and the partner of a config, each defaulting when absent
DomainOf(cfg) == OrStr(params(cfg).domain, DEFAULT_DOMAIN)
PartnerOf(cfg) == OrStr(params(cfg).partner, DEFAULT_PARTNER)
\* 'https://D/getId' and 'https://D/getId.js?sourceId=P', letter for letter
InternalUrl(cfg) == "https://" \o DomainOf(cfg) \o "/getId"
ExternalUrl(cfg) == InternalUrl(cfg) \o ".js?sourceId=" \o PartnerOf(cfg)
\* the URL a config must give according to its mode
UrlAsStated(cfg) ==
  /\ getUrl(cfg).ok
  /\ params(cfg).mode = "INTERNAL" => getUrl(cfg).url = InternalUrl(cfg)
  /\ params(cfg).mode \in {"EXTERNAL", ""} => getUrl(cfg).url = ExternalUrl(cfg)
\* a host name the URL parser accepts and leaves as it is, and a partner id
\* made of characters a query string leaves as they are
PlainHosts == {DEFAULT_DOMAIN, "example.com"}
PlainPartners == {DEFAULT_PARTNER, "abc"}

AwaitingSignal(r) == r.dispatched = "external" /\ r.listener /\ r.events = 0

\* C18: as long as the script has not dispatched justIdReady, whether it
\* has loaded or not and whatever timer fires, the provider's promise stays
\* pending, no cookie is read, no POST is scheduled or sent, and cbFun is
\* not invoked.
C18_ExternalWaitsForSignal ==
  \A c \in DOMAIN calls :
    LET r == calls[c]
    IN  AwaitingSignal(r) =>
          /\ r.provP = "pending"
          /\ Invocations(c) = 0
          /\ ~r.hostFault
          /\ r.reads = 0
          /\ r.postTimer = "none" /\ r.postCount = 0 /\ ~r.inflight

\* the script has loaded and was sent prebidGetId, the probe's timer has
\* fired, and still no signal has come
C18_LoadedWithoutSignalSeen ==
  \E c \in DOMAIN calls :
    /\ AwaitingSignal(calls[c])
    /\ calls[c].loaded /\ calls[c].requests = 1
    /\ calls[c].tm = "fired"
    /\ calls[c].probeFail = "command"

\* the call got past the ConfigWrapper with params.mode = 'ADVENCED'
AdvencedMode(r) ==
  r.started /\ ~ConfigWrapperThrows(r.config) /\ params(r.config).mode = "ADVENCED"

\* C19: with params.mode = 'ADVENCED', after the probe fails the external
\* script is injected (and no POST is scheduled), prebidGetId is dispatched
\* when it has loaded, and the justId of the justIdReady signal is what
\* cbFun receives.
C19_AdvencedLoadsExternalScript ==
  \A c \in DOMAIN calls :
    LET r == calls[c]
    IN  (AdvencedMode(r) /\ r.probeFail # "none") =>
          /\ r.dispatched = "external"
          /\ r.injected = ExternalUrl(r.config)
          /\ r.postTimer = "none" /\ r.postCount = 0
          /\ r.loaded => r.requests = 1
          /\ (r.events >= 1 /\ ~isEmptyStr(r.yielded.v)) =>
               (r.cbArgs[1].has /\ r.cbArgs[1].uid = r.yielded.v)

\* C20: decode(value) is {justId: value.uid} when value is an object with a
\* non-empty uid; when value is undefined, null, {} or has an empty uid the
\* result is falsy, is no object, and nothing is thrown.
C20_DecodeGivesJustIdOrFalsy ==
  LET value == decoded.value
      result == decoded.result
  IN  decoded.called =>
        /\ (value.kind = "object" /\ isStr(value.uid) /\ value.uid.s # "") =>
             /\ result.object
             /\ result.justId = value.uid
             /\ ~result.threw
        /\ (\/ value.kind \in {"undefined", "null"}
            \/ value.kind = "object" /\ value.uid \in {Undefined, Str("")}) =>
             /\ ~result.object
             /\ ~Truthy(result.v)
             /\ ~result.threw

\* decode was given undefined
C20_DecodeOfUndefinedSeen ==
  /\ decoded.called
  /\ decoded.value.kind = "undefined"
  /\ decoded.result = Falsy(Undefined)

\* something of a provider has happened in the call
ProviderActed(r) ==
  \/ r.dispatched # "none"
  \/ r.reads > 0
  \/ r.postTimer # "none" \/ r.postCount > 0
  \/ r.injected # "" \/ r.listener
\* the probe still has something under way: a readiness it waits for with
\* the timer armed, or a future of getVersion or getUid
ProbeUnderWay(r) ==
  \/ r.readyP = "pending"
  \/ r.versionP = "pending"
  \/ r.uidP = "pending"

\* C21: a provider acts only after the probe has failed; the handler of the
\* failure runs once, so one provider is constructed, and it stays the one;
\* the internal and the external provider never both act; once the probe
\* has failed nothing of it is under way and no command is sent any more.
C21_StrategiesRunInSequence ==
  [][\A c \in DOMAIN calls :
       LET r == calls[c]
           q == calls'[c]
       IN  /\ ProviderActed(q) =>
                /\ q.probeFail # "none"
                /\ q.catches = 1
                /\ ~ProbeUnderWay(q)
           /\ ~(q.reads > 0 /\ (q.injected # "" \/ q.listener))
           /\ (r.dispatched # "none" /\ q.started) => q.dispatched = r.dispatched
           /\ (r.probeFail # "none" /\ q.started) =>
                /\ q.versionCalls = r.versionCalls
                /\ q.uidCalls = r.uidCalls
                /\ q.catches = r.catches]_vars

\* the capability fires the readiness callback again while the request of
\* the internal provider, started after an unsupported version, is in flight
C21_ReadyDuringProviderSeen ==
  \E c \in DOMAIN calls :
    /\ calls[c].probeFail = "unsupported"
    /\ calls[c].dispatched = "internal"
    /\ calls[c].inflight
    /\ calls[c].readyCalls >= 2

RECURSIVE NumOf(_)
\* the number a decimal string stands for
NumOf(d) == IF d = <<>> THEN 0 ELSE NumOf(SubSeq(d, 1, Len(d) - 1)) * 10 + d[Len(d)]
\* the epoch-ms timestamp the ut cookie holds
StoredAt(r) == NumOf(r.uidTime.s)
\* the freshness predicate as stated: a stored uid and
\* storedAt + cookieRefreshSeconds * 1000 >= now, in integers
FreshAsStated(r) ==
  /\ Truthy(r.prevStoredId)
  /\ isStr(r.uidTime)
  /\ StoredAt(r) + RefreshMs(r) >= r.now

\* C22: the internal provider answers from the cache, scheduling no POST,
\* exactly when a stored uid exists and storedAt + cookieRefreshSeconds*1000
\* >= now in integer arithmetic.
C22_FreshnessIsIntegerComparison ==
  \A c \in DOMAIN calls :
    LET r == calls[c]
    IN  (r.started /\ r.dispatched = "internal") =>
          /\ IsFresh(r) <=> FreshAsStated(r)
          /\ (r.postTimer = "none") <=> FreshAsStated(r)

\* the step in which success(...) of call c is given a body that parses to
\* an object
RequestSucceeds(r, q) ==
  r.inflight /\ ~q.inflight /\ q.response.body = "object"

\* C23: a call reads the uid/ut pair at most once, when the internal
\* provider starts, and writes it at most once; the cookies change only in
\* the step in which the request of some call is answered with an object,
\* so they are untouched on probe success, on a cache hit, in EXTERNAL mode,
\* on a transport error and on a malformed body.
C23_StoreReadOnceWrittenOnSuccess ==
  [][/\ \A c \in DOMAIN calls :
          LET r == calls[c]
              q == calls'[c]
          IN  /\ q.reads \in {0, 2}
              /\ q.writes \in {0, 2}
              /\ (q.reads = 2) <=> (q.dispatched = "internal")
              /\ q.writes = 2 =>
                   (q.dispatched = "internal" /\ q.postCount = 1
                      /\ q.response.body = "object")
              /\ (ProbeSucceeded(q) \/ q.dispatched = "external") => q.writes = 0
              /\ (q.dispatched = "internal" /\ IsFresh(q)) => q.writes = 0
              /\ RequestFails(r, q) => (jar' = jar /\ q.writes = 0)
     /\ jar' # jar =>
          \E c \in DOMAIN calls :
            /\ RequestSucceeds(calls[c], calls'[c])
            /\ calls'[c].writes = calls[c].writes + 2]_vars

\* a call that answered from the cache another call had written
C23_CacheHitSeen ==
  \E c \in DOMAIN calls :
    /\ calls[c].dispatched = "internal"
    /\ calls[c].reads = 2 /\ calls[c].writes = 0
    /\ calls[c].prevStoredId = Str("u1")
    /\ calls[c].postTimer = "none"
    /\ Invocations(c) >= 1

\* the prebidGetId detail that carries what getId was given
RequestOf(r) ==
  [sent |-> TRUE, config |-> r.config, consentData |-> r.consentData,
   cacheIdObj |-> r.cacheIdObj]

\* C24: the justIdReady listener is registered when the script is appended;
\* prebidGetId is not dispatched before the load event and is dispatched in
\* it, once, carrying the raw config, the consent data and the cacheIdObj
\* getId was given; a justIdReady dispatched in answer within the load
\* event is received, and its justId is the uid the provider resolves with.
C24_ExternalHandshake ==
  [][\A c \in DOMAIN calls :
       LET r == calls[c]
           q == calls'[c]
       IN  /\ q.injected # "" => (q.listener /\ q.listenedAtInject)
           /\ ~q.loaded => (q.requests = 0 /\ ~q.request.sent)
           /\ q.loaded => (q.requests = 1 /\ q.request = RequestOf(q))
           /\ (r.listener /\ ~r.loaded /\ q.loaded /\ q.events = r.events + 1
                 /\ r.provP = "pending") =>
                /\ q.provP = "resolved"
                /\ q.yielded = Got(IF q.signal.defined THEN q.signal.justId ELSE Null)
                /\ Len(q.cbArgs) >= 1]_vars

\* the script answered prebidGetId at once, and cbFun has its justId; getId
\* had been given consent data and a cacheIdObj
C24_AnsweredOnLoadSeen ==
  \E c \in DOMAIN calls :
    /\ calls[c].loaded /\ calls[c].events = 1
    /\ calls[c].request.consentData = "consentB"
    /\ calls[c].request.cacheIdObj = "cachedC"
    /\ calls[c].signal.justId = Str("u1")
    /\ Invocations(c) = 1
    /\ calls[c].cbArgs[1] = UidArg(Str("u1"))

\* C25: in one call atm('getVersion') and atm('getUid') are each called at
\* most once, however often the readiness callback is fired, and not at all
\* when the probe has timed out.
C25_CommandsAtMostOnce ==
  \A c \in DOMAIN calls :
    LET r == calls[c]
    IN  /\ r.versionCalls <= 1
        /\ r.uidCalls <= 1
        /\ r.uidCalls <= r.versionCalls
        /\ r.probeFail = "timeout" => (r.versionCalls = 0 /\ r.uidCalls = 0)

\* the readiness callback fired more than once in a call that sent both
\* commands
C25_RepeatedReadySeen ==
  \E c \in DOMAIN calls :
    /\ calls[c].readyCalls >= 2
    /\ calls[c].versionCalls = 1
    /\ calls[c].uidCalls = 1

\* C26: a response that parses to an object whose uid is missing, empty or
\* not a string never changes the cookies, and a stored <prefix>uid entry
\* always holds the non-empty string uid of the response that wrote it.
C26_EmptyUidNeverWritten ==
  [][\A c \in DOMAIN calls :
       LET r == calls[c]
           q == calls'[c]
       IN  /\ (RequestSucceeds(r, q) /\ EmptyIdentifier(q.response.uid)) => jar' = jar
           /\ (RequestSucceeds(r, q) /\ jar' # jar) =>
                /\ isStr(q.response.uid)
                /\ jar'[getUidCookieName(q.config)].v = q.response.uid.s
                /\ jar'[getUidCookieName(q.config)].v # ""]_vars

\* the uid and ut entries a call uses hold what the response of r wrote
PairOf(j, r) ==
  LET u == j[getUidCookieName(r.config)]
      t == j[getUtCookieName(r.config)]
  IN  /\ u.present /\ t.present
      /\ u.v = StringOf(r.response.uid)
      /\ t.v = Digits(r.now)
      /\ u.expires = t.expires
      /\ u.writtenAt = t.writtenAt

\* C27: when calls in INTERNAL mode overlap, cbFun of a call is given no
\* uid but the one of its own response, and is given it when that uid is a
\* non-empty string; the step in which a response is handled leaves the uid
\* and ut entries a pair of that response (its uid, the time of its call),
\* and no other step changes the cookies, so after both calls the pair is
\* that of the later write.
C27_OverlappingCallsKeepPairs ==
  [][/\ \A c \in DOMAIN calls :
          LET r == calls[c]
              q == calls'[c]
          IN  /\ RequestSucceeds(r, q) =>
                   /\ PairOf(jar', q)
                   /\ ~EmptyIdentifier(q.response.uid) =>
                        /\ Len(q.cbArgs) >= 1
                        /\ q.cbArgs[1].has
                        /\ q.cbArgs[1].uid = q.response.uid
              /\ \A i \in 1..Len(q.cbArgs) :
                   (q.cbArgs[i].has /\ q.postCount = 1) =>
                     q.cbArgs[i].uid = q.response.uid
     /\ jar' # jar =>
          \E c \in DOMAIN calls : RequestSucceeds(calls[c], calls'[c])
     /\ (\A c \in DOMAIN calls : calls'[c].writes = 2) =>
          \E c \in DOMAIN calls : PairOf(jar', calls'[c])]_vars

\* both calls found no record and posted; the call that started first was
\* answered last, with another uid, and the cookies hold its pair
C27_OlderCallWroteLastSeen ==
  /\ DOMAIN calls = Overlapping
  /\ \A c \in Overlapping :
       /\ calls[c].postCount = 1 /\ calls[c].writes = 2
       /\ calls[c].prevStoredId = Null
       /\ Invocations(c) = 1
  /\ calls[1].now < calls[2].now
  /\ calls[1].response.uid = Str("u1")
  /\ calls[2].response.uid = Str("u2")
  /\ calls[1].cbArgs[1] = UidArg(Str("u1"))
  /\ calls[2].cbArgs[1] = UidArg(Str("u2"))
  /\ PairOf(jar, calls[1])
  /\ ~PairOf(jar, calls[2])

====
